---- MODULE Spec2Model ----
(***************************************************************************)
(* The click-driven filter reconciliation of dashboard_app.py.             *)
(*                                                                         *)
(* The script runs top to bottom once per render pass.  A pass is split    *)
(* into the three stretches of the script between the points where it can  *)
(* end: the filter stretch (lines 49-141), the stretch up to and including *)
(* the Region pie chart and its click handler (lines 143-327), and the     *)
(* stretch of the Category pie chart, its handler and the data table       *)
(* (lines 329-378).  User input is taken only between passes.              *)
(*                                                                         *)
(* The script reads a click as the value of a plotly_events component      *)
(* keyed "region_pie_click" or "category_pie_click" and never clears it.   *)
(* Whether the component still holds the click in the pass that st.rerun() *)
(* forces is the component's doing, not the script's: value_persists says  *)
(* which of the two it is, and both are explored.                          *)
(*                                                                         *)
(* input and applied record what has happened (the latest user input, and  *)
(* the branches the click handlers took since); the script does not read   *)
(* them.                                                                   *)
(***************************************************************************)
EXTENDS Integers, Sequences, FiniteSets, TLC

VARIABLES
    df,                     \* the loaded table (line 49), a sequence of rows
    columns,                \* the measure columns the table has
    region_click_filter,    \* st.session_state.region_click_filter, a list
    category_click_filter,  \* st.session_state.category_click_filter, a list
    sidebar,                \* value of each sidebar multiselect, by dimension
    selected,               \* selected_regions, ..., selected_months of the pass
    df_filtered,            \* df_filtered of the pass
    region_pie_click,       \* component value held under key "region_pie_click"
    category_pie_click,     \* component value held under key "category_pie_click"
    region_pie_shown,       \* the pass has presented the Region pie chart
    category_pie_shown,     \* the pass has presented the Category pie chart
    pc,                     \* position of the script
    value_persists,         \* the component keeps its value over a rerun
    input,                  \* the latest user input, and the overrides it met
    applied                 \* what the click handlers have applied since then

vars == <<df, columns, region_click_filter, category_click_filter, sidebar,
          selected, df_filtered, region_pie_click, category_pie_click,
          region_pie_shown, category_pie_shown, pc, value_persists, input,
          applied>>

(***************************************************************************)
(* Bounds.                                                                 *)
(***************************************************************************)
MaxRows == 2
MaxApplied == 2

(***************************************************************************)
(* The table.                                                              *)
(***************************************************************************)
Dimensions == {"Region", "Category", "Supplier", "Item", "Month"}

\* The values a column can hold, in the order groupby sorts them.
Order(d) ==
    CASE d = "Region"   -> <<"North", "South">>
      [] d = "Category" -> <<"A", "B">>
      [] d = "Supplier" -> <<"X", "Y">>
      [] d = "Item"     -> <<"I1", "I2">>
      [] d = "Month"    -> <<"Feb", "Jan">>

Range(s) == {s[i] : i \in DOMAIN s}

Values(d) == Range(Order(d))

Rows == [Region : Values("Region"), Category : Values("Category"),
         Supplier : Values("Supplier"), Item : Values("Item"),
         Month : Values("Month")]

SeqsUpTo(S, n) == UNION {[1..k -> S] : k \in 0..n}

\* Tables of the dashboard runs: rows vary in the two clickable dimensions,
\* and no row has Region North with Category B, or South with A.
DashboardRows ==
    {r \in Rows : /\ r.Supplier = "X" /\ r.Item = "I1" /\ r.Month = "Jan"
                  /\ (r.Region = "North") = (r.Category = "A")}

Datasets == SeqsUpTo(DashboardRows, MaxRows)

MeasureColumns == {"Sales Total", "Margin"}

\* df[d].unique()
Unique(table, d) == {table[i][d] : i \in DOMAIN table}

\* df.groupby(d)[measure].sum().reset_index(): one row per value, sorted by value
GroupBy(table, d) == SelectSeq(Order(d), LAMBDA v : v \in Unique(table, d))

(***************************************************************************)
(* Filter application, lines 76 and 125-135.                               *)
(***************************************************************************)
Isin(table, d, S) == SelectSeq(table, LAMBDA r : r[d] \in S)

\* Variant: the step without the emptiness test of lines 126-134.
FilterStep_Unguarded(table, d, S) == Isin(table, d, S)

FilterStep(table, d, S) == IF S # {} THEN Isin(table, d, S) ELSE table

ApplyFilters(table, sel) ==
    LET t1 == FilterStep(table, "Region", sel["Region"])
        t2 == FilterStep(t1, "Category", sel["Category"])
        t3 == FilterStep(t2, "Supplier", sel["Supplier"])
        t4 == FilterStep(t3, "Item", sel["Item"])
    IN  FilterStep(t4, "Month", sel["Month"])

(***************************************************************************)
(* Effective selections, lines 80-123.                                     *)
(***************************************************************************)
\* Variant: the sidebar selection taken first, the override only without one.
selected_regions_SidebarFirst ==
    IF sidebar["Region"] # {} THEN sidebar["Region"]
                              ELSE Range(region_click_filter)

selected_regions ==
    IF region_click_filter # <<>> THEN Range(region_click_filter)
                                  ELSE sidebar["Region"]

selected_categories ==
    IF category_click_filter # <<>> THEN Range(category_click_filter)
                                    ELSE sidebar["Category"]

Selections ==
    [d \in Dimensions |->
        CASE d = "Region"   -> selected_regions
          [] d = "Category" -> selected_categories
          [] OTHER          -> sidebar[d]]

(***************************************************************************)
(* Click events: what plotly_events returns is a list of dicts.            *)
(***************************************************************************)
EmptyDict == [keys |-> {}, pointIndex |-> 0]
NoIndex == [keys |-> {"curveNumber"}, pointIndex |-> 0]
Point(i) == [keys |-> {"curveNumber", "pointIndex"}, pointIndex |-> i]

\* Events a click on a chart of n slices may carry: the slices are 0..n-1.
ClickEvents(n) == {EmptyDict, NoIndex} \cup {Point(i) : i \in (0 - 1)..n}

\* selected[0] and 'pointIndex' in selected[0]
HasPointIndex(events) ==
    /\ events # <<>>
    /\ events[1].keys # {}
    /\ "pointIndex" \in events[1].keys

\* agg.iloc[i] raises IndexError outside -len..len-1
IlocInRange(agg, i) == (0 - Len(agg)) <= i /\ i < Len(agg)

Iloc(agg, i) == IF i >= 0 THEN agg[i + 1] ELSE agg[Len(agg) + i + 1]

\* Variant: the handler sets the clicked value whatever the override holds.
IsOtherValue_Always(click_filter, name) == TRUE

\* Variant: the handler sets the clicked value only when no override is held.
IsOtherValue_UnsetOnly(click_filter, name) == click_filter = <<>>

\* not click_filter or click_filter[0] != name
IsOtherValue(click_filter, name) ==
    IF click_filter = <<>> THEN TRUE ELSE click_filter[1] # name

\* The record of a handler's transition, kept up to MaxApplied entries.
Logged(dim, kind) ==
    IF Len(applied) < MaxApplied
    THEN Append(applied, [dim |-> dim, kind |-> kind])
    ELSE applied

\* The record of a user input of the given kind.
Input(kind) ==
    [kind |-> kind, region |-> region_click_filter,
     category |-> category_click_filter]

SetKind(click_filter) == IF click_filter = <<>> THEN "set" ELSE "replace"

Terminal == {"done", "halted", "error", "stopped"}

NoSelection == [d \in Dimensions |-> {}]

\* A new run of the script begins: the locals and the page of the run before
\* are gone, and df_filtered starts as the full table (line 76).
StartPass ==
    /\ pc' = "filter"
    /\ selected' = NoSelection
    /\ df_filtered' = df
    /\ region_pie_shown' = FALSE
    /\ category_pie_shown' = FALSE

(***************************************************************************)
(* Initial state: session state as lines 14-17 leave it, every sidebar     *)
(* multiselect at its default (all values), no click received.             *)
(***************************************************************************)
Init ==
    /\ df \in Datasets
    /\ columns \in SUBSET MeasureColumns
    /\ value_persists \in BOOLEAN
    /\ region_click_filter = <<>>
    /\ category_click_filter = <<>>
    /\ sidebar = [d \in Dimensions |-> Unique(df, d)]
    /\ selected = NoSelection
    /\ df_filtered = df
    /\ region_pie_click = <<>>
    /\ category_pie_click = <<>>
    /\ region_pie_shown = FALSE
    /\ category_pie_shown = FALSE
    /\ pc = "filter"
    /\ input = Input("none")
    /\ applied = <<>>

(***************************************************************************)
(* Lines 49-141: load check, effective selections, filters, empty halt.    *)
(***************************************************************************)
RunFilters ==
    /\ pc = "filter"
    /\ IF df = <<>>
       THEN /\ pc' = "stopped"
            /\ UNCHANGED <<selected, df_filtered>>
       ELSE /\ selected' = Selections
            /\ df_filtered' = ApplyFilters(df, Selections)
            /\ pc' = IF ApplyFilters(df, Selections) = <<>> THEN "halted"
                                                            ELSE "region_pie"
    /\ UNCHANGED <<df, columns, region_click_filter, category_click_filter,
                   sidebar, region_pie_click, category_pie_click,
                   region_pie_shown, category_pie_shown, value_persists,
                   input, applied>>

(***************************************************************************)
(* reset_chart_filters, lines 64-66.                                       *)
(***************************************************************************)
\* Variant: the reset that clears the Region override alone.
reset_chart_filters_RegionOnly ==
    /\ region_click_filter' = <<>>
    /\ UNCHANGED category_click_filter

reset_chart_filters ==
    /\ region_click_filter' = <<>>
    /\ category_click_filter' = <<>>

(***************************************************************************)
(* st.rerun(), lines 320, 324, 363 and 367: the run ends and a new one     *)
(* begins.                                                                 *)
(***************************************************************************)
\* Variant: the handler without st.rerun(); the script runs on.
rerun_Missing ==
    /\ pc' = IF pc = "region_pie" THEN "category_pie" ELSE "done"
    /\ region_pie_shown' = TRUE
    /\ category_pie_shown' = (pc = "category_pie")
    /\ UNCHANGED <<selected, df_filtered>>

rerun == StartPass

(***************************************************************************)
(* Lines 143-327: the sections drawn from df_filtered, then the Region pie *)
(* chart and its click handler.                                            *)
(***************************************************************************)
\* Variant: the chart drawn from the filtered table.
region_sales_Filtered == GroupBy(df_filtered, "Region")

region_sales == GroupBy(df, "Region")

\* The value plotly_events hands the script, and what the component holds after.
ReadRegionPie ==
    /\ region_pie_click' = IF value_persists THEN region_pie_click ELSE <<>>
    /\ UNCHANGED <<df, columns, sidebar, category_pie_click, value_persists, input>>

RegionPieMissing ==
    /\ pc = "region_pie"
    /\ "Sales Total" \notin columns
    /\ pc' = "category_pie"
    /\ UNCHANGED <<df, columns, region_click_filter, category_click_filter,
                   sidebar, selected, df_filtered, region_pie_click,
                   category_pie_click, region_pie_shown, category_pie_shown,
                   value_persists, input, applied>>

RegionPieNoClick ==
    /\ pc = "region_pie"
    /\ "Sales Total" \in columns
    /\ ~HasPointIndex(region_pie_click)
    /\ ReadRegionPie
    /\ region_pie_shown' = TRUE
    /\ pc' = "category_pie"
    /\ UNCHANGED <<region_click_filter, category_click_filter, selected,
                   df_filtered, category_pie_shown, applied>>

RegionPieIndexError ==
    /\ pc = "region_pie"
    /\ "Sales Total" \in columns
    /\ HasPointIndex(region_pie_click)
    /\ ~IlocInRange(region_sales, region_pie_click[1].pointIndex)
    /\ ReadRegionPie
    /\ region_pie_shown' = TRUE
    /\ pc' = "error"
    /\ UNCHANGED <<region_click_filter, category_click_filter, selected,
                   df_filtered, category_pie_shown, applied>>

RegionPieSet ==
    /\ pc = "region_pie"
    /\ "Sales Total" \in columns
    /\ HasPointIndex(region_pie_click)
    /\ IlocInRange(region_sales, region_pie_click[1].pointIndex)
    /\ LET clicked_region_name == Iloc(region_sales, region_pie_click[1].pointIndex)
       IN  /\ IsOtherValue(region_click_filter, clicked_region_name)
           /\ region_click_filter' = <<clicked_region_name>>
    /\ applied' = Logged("Region", SetKind(region_click_filter))
    /\ ReadRegionPie
    /\ rerun
    /\ UNCHANGED category_click_filter

RegionPieToggle ==
    /\ pc = "region_pie"
    /\ "Sales Total" \in columns
    /\ HasPointIndex(region_pie_click)
    /\ IlocInRange(region_sales, region_pie_click[1].pointIndex)
    /\ ~IsOtherValue(region_click_filter,
                     Iloc(region_sales, region_pie_click[1].pointIndex))
    /\ reset_chart_filters
    /\ applied' = Logged("Region", "toggle")
    /\ ReadRegionPie
    /\ rerun

RegionPie ==
    \/ RegionPieMissing
    \/ RegionPieNoClick
    \/ RegionPieIndexError
    \/ RegionPieSet
    \/ RegionPieToggle

(***************************************************************************)
(* Lines 329-378: the Category pie chart, its click handler, the table.    *)
(***************************************************************************)
category_margin == GroupBy(df, "Category")

ReadCategoryPie ==
    /\ category_pie_click' = IF value_persists THEN category_pie_click ELSE <<>>
    /\ UNCHANGED <<df, columns, sidebar, region_pie_click, value_persists, input>>

CategoryPieMissing ==
    /\ pc = "category_pie"
    /\ "Margin" \notin columns
    /\ pc' = "done"
    /\ UNCHANGED <<df, columns, region_click_filter, category_click_filter,
                   sidebar, selected, df_filtered, region_pie_click,
                   category_pie_click, region_pie_shown, category_pie_shown,
                   value_persists, input, applied>>

CategoryPieNoClick ==
    /\ pc = "category_pie"
    /\ "Margin" \in columns
    /\ ~HasPointIndex(category_pie_click)
    /\ ReadCategoryPie
    /\ category_pie_shown' = TRUE
    /\ pc' = "done"
    /\ UNCHANGED <<region_click_filter, category_click_filter, selected,
                   df_filtered, region_pie_shown, applied>>

CategoryPieIndexError ==
    /\ pc = "category_pie"
    /\ "Margin" \in columns
    /\ HasPointIndex(category_pie_click)
    /\ ~IlocInRange(category_margin, category_pie_click[1].pointIndex)
    /\ ReadCategoryPie
    /\ category_pie_shown' = TRUE
    /\ pc' = "error"
    /\ UNCHANGED <<region_click_filter, category_click_filter, selected,
                   df_filtered, region_pie_shown, applied>>

CategoryPieSet ==
    /\ pc = "category_pie"
    /\ "Margin" \in columns
    /\ HasPointIndex(category_pie_click)
    /\ IlocInRange(category_margin, category_pie_click[1].pointIndex)
    /\ LET clicked_category_name ==
               Iloc(category_margin, category_pie_click[1].pointIndex)
       IN  /\ IsOtherValue(category_click_filter, clicked_category_name)
           /\ category_click_filter' = <<clicked_category_name>>
    /\ applied' = Logged("Category", SetKind(category_click_filter))
    /\ ReadCategoryPie
    /\ rerun
    /\ UNCHANGED region_click_filter

CategoryPieToggle ==
    /\ pc = "category_pie"
    /\ "Margin" \in columns
    /\ HasPointIndex(category_pie_click)
    /\ IlocInRange(category_margin, category_pie_click[1].pointIndex)
    /\ ~IsOtherValue(category_click_filter,
                     Iloc(category_margin, category_pie_click[1].pointIndex))
    /\ reset_chart_filters
    /\ applied' = Logged("Category", "toggle")
    /\ ReadCategoryPie
    /\ rerun

CategoryPie ==
    \/ CategoryPieMissing
    \/ CategoryPieNoClick
    \/ CategoryPieIndexError
    \/ CategoryPieSet
    \/ CategoryPieToggle

(***************************************************************************)
(* User input, taken between passes.  Each starts a new pass.              *)
(***************************************************************************)
\* A click on the Region pie chart: the component stores the event.
ClickRegionSegment ==
    /\ pc \in Terminal
    /\ region_pie_shown
    /\ \E ev \in ClickEvents(Len(region_sales)) : region_pie_click' = <<ev>>
    /\ StartPass
    /\ input' = Input("region_click")
    /\ applied' = <<>>
    /\ UNCHANGED <<df, columns, region_click_filter, category_click_filter,
                   sidebar, category_pie_click, value_persists>>

\* A click on the Category pie chart.
ClickCategorySegment ==
    /\ pc \in Terminal
    /\ category_pie_shown
    /\ \E ev \in ClickEvents(Len(category_margin)) : category_pie_click' = <<ev>>
    /\ StartPass
    /\ input' = Input("category_click")
    /\ applied' = <<>>
    /\ UNCHANGED <<df, columns, region_click_filter, category_click_filter,
                   sidebar, region_pie_click, value_persists>>

\* The "Clear Chart Filters" button, line 69: the callback runs, then the script.
ResetAll ==
    /\ pc \in Terminal \ {"stopped"}
    /\ reset_chart_filters
    /\ StartPass
    /\ input' = Input("reset")
    /\ applied' = <<>>
    /\ UNCHANGED <<df, columns, sidebar, region_pie_click, category_pie_click,
                   value_persists>>

\* The multiselect of dimension d is enabled (lines 85 and 98 disable it).
SidebarEnabled(d) ==
    CASE d = "Region"   -> region_click_filter = <<>>
      [] d = "Category" -> category_click_filter = <<>>
      [] OTHER          -> TRUE

\* The user changes a sidebar multiselect; its options are df[d].unique().
ChangeSidebar ==
    /\ pc \in Terminal \ {"stopped"}
    /\ \E d \in Dimensions : \E S \in SUBSET Unique(df, d) :
           /\ SidebarEnabled(d)
           /\ S # sidebar[d]
           /\ sidebar' = [sidebar EXCEPT ![d] = S]
    /\ StartPass
    /\ input' = Input("sidebar")
    /\ applied' = <<>>
    /\ UNCHANGED <<df, columns, region_click_filter, category_click_filter,
                   region_pie_click, category_pie_click, value_persists>>

Next ==
    \/ RunFilters
    \/ RegionPie
    \/ CategoryPie
    \/ ClickRegionSegment
    \/ ClickCategorySegment
    \/ ResetAll
    \/ ChangeSidebar

Spec == Init /\ [][Next]_vars

(***************************************************************************)
(* The filter application on its own: lines 76 and 125-135 applied to any  *)
(* table and any selections, and then once more to their own result.       *)
(***************************************************************************)
BaseRow == [Region |-> "North", Category |-> "A", Supplier |-> "X",
            Item |-> "I1", Month |-> "Jan"]

\* Rows that differ from BaseRow in at most one column.
FilterRows ==
    {r \in Rows : Cardinality({d \in Dimensions : r[d] # BaseRow[d]}) <= 1}

FilterTables == SeqsUpTo(FilterRows, MaxRows)

FilterInit ==
    /\ df \in FilterTables
    /\ selected \in [Region : SUBSET Values("Region"),
                      Category : SUBSET Values("Category"),
                      Supplier : SUBSET Values("Supplier"),
                      Item : SUBSET Values("Item"),
                      Month : SUBSET Values("Month")]
    /\ df_filtered = df
    /\ pc = "apply"
    /\ columns = MeasureColumns
    /\ value_persists = FALSE
    /\ region_click_filter = <<>>
    /\ category_click_filter = <<>>
    /\ sidebar = NoSelection
    /\ region_pie_click = <<>>
    /\ category_pie_click = <<>>
    /\ region_pie_shown = FALSE
    /\ category_pie_shown = FALSE
    /\ input = Input("none")
    /\ applied = <<>>

FilterFrame ==
    UNCHANGED <<df, columns, region_click_filter, category_click_filter,
                sidebar, selected, region_pie_click, category_pie_click,
                region_pie_shown, category_pie_shown, value_persists, input,
                applied>>

FilterOnce ==
    /\ pc = "apply"
    /\ df_filtered' = ApplyFilters(df_filtered, selected)
    /\ pc' = "applied"
    /\ FilterFrame

FilterAgain ==
    /\ pc = "applied"
    /\ df_filtered' = ApplyFilters(df_filtered, selected)
    /\ pc' = "reapplied"
    /\ FilterFrame

FilterNext == FilterOnce \/ FilterAgain

FilterSpec == FilterInit /\ [][FilterNext]_vars

(***************************************************************************)
(* What the properties below speak of, stated apart from the script.       *)
(***************************************************************************)
Clickable == {"Region", "Category"}

Override(d) == IF d = "Region" THEN region_click_filter ELSE category_click_filter

\* The Effective Selection of each dimension, from the overrides and the sidebar.
Effective ==
    [d \in Dimensions |->
        IF d \in Clickable /\ Override(d) # <<>> THEN {Override(d)[1]}
                                                 ELSE sidebar[d]]

\* A row satisfies the selections: AND over dimensions, OR within one.
Matches(r, sel) == \A d \in Dimensions : sel[d] # {} => r[d] \in sel[d]

Restricted(table, sel) == SelectSeq(table, LAMBDA r : Matches(r, sel))

\* The slices of the chart of dimension d drawn from the full table.
Slices(d) == SelectSeq(Order(d), LAMBDA v : \E i \in DOMAIN df : df[i][d] = v)

\* The script is at the Region (Category) handler with a click on slice v.
RegionSegmentClicked(v) ==
    /\ pc = "region_pie"
    /\ "Sales Total" \in columns
    /\ HasPointIndex(region_pie_click)
    /\ region_pie_click[1].pointIndex \in 0..(Len(Slices("Region")) - 1)
    /\ Slices("Region")[region_pie_click[1].pointIndex + 1] = v

CategorySegmentClicked(v) ==
    /\ pc = "category_pie"
    /\ "Margin" \in columns
    /\ HasPointIndex(category_pie_click)
    /\ category_pie_click[1].pointIndex \in 0..(Len(Slices("Category")) - 1)
    /\ Slices("Category")[category_pie_click[1].pointIndex + 1] = v

\* The script is at a handler holding an event that maps to no slice.
RegionClickUnresolvable ==
    /\ pc = "region_pie"
    /\ "Sales Total" \in columns
    /\ region_pie_click # <<>>
    /\ \/ ~HasPointIndex(region_pie_click)
       \/ region_pie_click[1].pointIndex \notin 0..(Len(Slices("Region")) - 1)

CategoryClickUnresolvable ==
    /\ pc = "category_pie"
    /\ "Margin" \in columns
    /\ category_pie_click # <<>>
    /\ \/ ~HasPointIndex(category_pie_click)
       \/ category_pie_click[1].pointIndex \notin 0..(Len(Slices("Category")) - 1)

\* Every click the components hold is a click on a slice.
ClicksAreSlices ==
    /\ region_pie_click # <<>> =>
          /\ HasPointIndex(region_pie_click)
          /\ region_pie_click[1].pointIndex \in 0..(Len(Slices("Region")) - 1)
    /\ category_pie_click # <<>> =>
          /\ HasPointIndex(category_pie_click)
          /\ category_pie_click[1].pointIndex \in 0..(Len(Slices("Category")) - 1)

\* The pass has computed its selections and its filtered table.
Filtered == pc \in {"region_pie", "category_pie", "done", "halted", "error"}

Did(dim, kind) == <<[dim |-> dim, kind |-> kind]>>

\* The chart of dimension d, drawn from agg, offers a click for every value.
EverySliceClickable(d, agg) ==
    \A v \in Unique(df, d) :
        \E ev \in ClickEvents(Len(agg)) :
            /\ HasPointIndex(<<ev>>)
            /\ ev.pointIndex \in 0..(Len(agg) - 1)
            /\ agg[ev.pointIndex + 1] = v

(***************************************************************************)
(* C1.  A click on a segment of one clickable chart leaves the Click       *)
(* Override of the other clickable dimension unchanged, the click that     *)
(* repeats the current value included.                                     *)
(***************************************************************************)
C1_ClickLeavesOtherOverride ==
    [][/\ (\E v \in Values("Region") : RegionSegmentClicked(v))
            => category_click_filter' = category_click_filter
       /\ (\E v \in Values("Category") : CategorySegmentClicked(v))
            => region_click_filter' = region_click_filter]_vars

(***************************************************************************)
(* C2.  Toggle-off: a click on the segment of the value a dimension's      *)
(* override is set to makes that override Unset and starts a new pass, and *)
(* the completed render that follows it shows the table filtered by the    *)
(* sidebar selection of that dimension.                                    *)
(***************************************************************************)
C2_ToggleOff ==
    /\ [][/\ \A v \in Values("Region") :
                (RegionSegmentClicked(v) /\ region_click_filter = <<v>>)
                    => (region_click_filter' = <<>> /\ pc' = "filter")
          /\ \A v \in Values("Category") :
                (CategorySegmentClicked(v) /\ category_click_filter = <<v>>)
                    => (category_click_filter' = <<>> /\ pc' = "filter")]_vars
    /\ [](\A d \in Clickable :
            (pc = "done" /\ applied = Did(d, "toggle"))
                => /\ Override(d) = <<>>
                   /\ selected[d] = sidebar[d]
                   /\ df_filtered = Restricted(df, [Effective EXCEPT ![d] = sidebar[d]]))

C2_Witness ==
    /\ pc = "done"
    /\ applied = Did("Region", "toggle")
    /\ input.kind = "region_click"
    /\ input.region # <<>>
    /\ region_click_filter = <<>>

(***************************************************************************)
(* C3.  Set/replace: a click on the segment of w, with the override Unset  *)
(* or set to another value, leaves the override holding exactly w; every   *)
(* override holds at most one value, a value of its dimension's domain.    *)
(***************************************************************************)
C3_SetReplace ==
    /\ [][/\ \A w \in Values("Region") :
                (RegionSegmentClicked(w) /\ region_click_filter # <<w>>)
                    => region_click_filter' = <<w>>
          /\ \A w \in Values("Category") :
                (CategorySegmentClicked(w) /\ category_click_filter # <<w>>)
                    => category_click_filter' = <<w>>]_vars
    /\ [](\A d \in Clickable :
            /\ Len(Override(d)) <= 1
            /\ \A i \in DOMAIN Override(d) : Override(d)[i] \in Unique(df, d))

C3_Witness ==
    /\ pc = "done"
    /\ applied = Did("Region", "replace")
    /\ input.region = <<"North">>
    /\ region_click_filter = <<"South">>

(***************************************************************************)
(* C4.  ResetAll leaves both Click Overrides Unset, and the render that    *)
(* follows it uses the sidebar Selection Sets for both dimensions.         *)
(***************************************************************************)
C4_ResetAll ==
    (input.kind = "reset" /\ applied = <<>>)
        => /\ region_click_filter = <<>>
           /\ category_click_filter = <<>>
           /\ Filtered => /\ selected = sidebar
                          /\ df_filtered = Restricted(df, sidebar)

C4_Witness ==
    /\ input.kind = "reset"
    /\ input.region # <<>>
    /\ input.category # <<>>
    /\ applied = <<>>
    /\ pc = "done"

(***************************************************************************)
(* C5.  Override precedence: in a pass, a dimension whose override is      *)
(* Set(v) has the Effective Selection {v} whatever its sidebar selection   *)
(* is, and every row of the filtered table has the value v; a dimension    *)
(* whose override is Unset has its sidebar selection.                      *)
(***************************************************************************)
C5_OverridePrecedence ==
    Filtered =>
        \A d \in Clickable :
            IF Override(d) # <<>>
            THEN /\ selected[d] = {Override(d)[1]}
                 /\ \A i \in DOMAIN df_filtered : df_filtered[i][d] = Override(d)[1]
            ELSE selected[d] = sidebar[d]

C5_Witness ==
    /\ pc = "done"
    /\ region_click_filter = <<"North">>
    /\ sidebar["Region"] = {"South"}
    /\ category_click_filter = <<>>
    /\ df_filtered # <<>>

(***************************************************************************)
(* C6.  As claimed: every pass, also one whose selections match no rows,   *)
(* presents both clickable charts built from the full table, so that a     *)
(* click is available for every domain value.                              *)
(***************************************************************************)
C6_AlwaysClickable ==
    (columns = MeasureColumns /\ pc \in {"done", "halted"})
        => /\ region_pie_shown
           /\ category_pie_shown
           /\ EverySliceClickable("Region", region_sales)
           /\ EverySliceClickable("Category", category_margin)

(***************************************************************************)
(* C6, amended.  Every pass that runs to completion presents each          *)
(* clickable chart whose measure column the table has, built from the full *)
(* table, so that a click is available for every domain value whatever     *)
(* filters are active.                                                     *)
(***************************************************************************)
C6_ClickableWhenCompleted ==
    pc = "done" =>
        /\ "Sales Total" \in columns
             => (region_pie_shown /\ EverySliceClickable("Region", region_sales))
        /\ "Margin" \in columns
             => (category_pie_shown /\ EverySliceClickable("Category", category_margin))

C6_Witness ==
    /\ pc = "done"
    /\ region_click_filter = <<"North">>
    /\ Unique(df, "Region") = {"North", "South"}
    /\ Unique(df_filtered, "Region") = {"North"}
    /\ region_pie_shown
    /\ category_pie_shown

(***************************************************************************)
(* C7.  A click event that maps to no domain value (no point index, or a   *)
(* point index that is no row index of the chart's aggregation) is         *)
(* ignored: both overrides stay, no new pass is forced, the pass goes on   *)
(* without an error.                                                       *)
(***************************************************************************)
C7_UnresolvableIgnored ==
    [][/\ RegionClickUnresolvable
            => /\ UNCHANGED <<region_click_filter, category_click_filter>>
               /\ pc' = "category_pie"
       /\ CategoryClickUnresolvable
            => /\ UNCHANGED <<region_click_filter, category_click_filter>>
               /\ pc' = "done"]_vars

(***************************************************************************)
(* C8.  No stale frame: a step that changes a Click Override starts a new  *)
(* pass that recomputes everything, and every pass that runs to completion *)
(* shows the full table filtered by the Effective Selections of the        *)
(* overrides held at its end.                                              *)
(***************************************************************************)
C8_NoStaleFrame ==
    /\ [][(region_click_filter' # region_click_filter
              \/ category_click_filter' # category_click_filter)
            => (pc' = "filter" /\ df_filtered' = df /\ selected' = NoSelection)]_vars
    /\ [](pc = "done" => df_filtered = Restricted(df, Effective))

C8_Witness ==
    /\ pc = "done"
    /\ applied = Did("Category", "set")
    /\ category_click_filter = <<"B">>
    /\ df_filtered # df
    /\ df_filtered # <<>>

(***************************************************************************)
(* C9.  The filtered table is exactly the rows whose value is in the       *)
(* selection of every dimension that has a non-empty selection; an empty   *)
(* selection constrains nothing; selecting every value of every dimension  *)
(* gives the table back; filtering the result again changes nothing.       *)
(***************************************************************************)
C9_FilterResult ==
    pc \in {"applied", "reapplied"} =>
        /\ df_filtered = Restricted(df, selected)
        /\ (\A d \in Dimensions : selected[d] = Unique(df, d)) => df_filtered = df

C9_Witness ==
    /\ pc = "reapplied"
    /\ selected["Region"] = {"North"}
    /\ selected["Category"] = {}
    /\ selected["Month"] = {"Jan", "Feb"}
    /\ Len(df) = 2
    /\ Len(df_filtered) = 1
    /\ df_filtered[1].Category = "B"

(***************************************************************************)
(* C10.  A single click settles: with no further input the passes it       *)
(* forces do not handle the same click again, so exactly one override      *)
(* transition is applied for it.                                           *)
(***************************************************************************)
C10_ClickSettles ==
    (/\ input.kind \in {"region_click", "category_click"}
     /\ ClicksAreSlices) => Len(applied) <= 1

====
